---------------------------- MODULE Spec2Model ----------------------------
(***************************************************************************)
(* A model of the OceanBase plugin tools: the Execute-SQL tool, provider   *)
(* credential validation, schema introspection (get_table_info, used by    *)
(* Get-Table-Schema and Text2SQL) and the Hybrid-Search tool.              *)
(*                                                                         *)
(* Python values are modelled as follows.  A str is a sequence of          *)
(* one-character strings; None, where a str was expected, is the sequence  *)
(* NoneStr.  A dict is a function from its keys.  An exception is a record *)
(* [cls, msg, subject]: the exception class, the message template, and the *)
(* value interpolated into the message.                                    *)
(***************************************************************************)
EXTENDS Integers, Sequences, FiniteSets, TLC

VARIABLES
    tool,        \* the tool whose _invoke is running ("none" when idle)
    caller,      \* "provider" when _invoke runs inside _validate_credentials
    pc,          \* position in the running handler
    creds,       \* runtime.credentials
    params,      \* tool_parameters
    locals,      \* the handler's local variables
    err,         \* the exception in flight, or the one the invocation ended with
    messages,    \* the ToolInvokeMessages yielded so far
    db,          \* the records.Database handle: "none", "open", "closed"
    queries,     \* the statements sent to the database by db.query
    validation,  \* outcome of _validate_credentials: "none", "accepted", "rejected"
    engine,      \* the sqlalchemy engine of the invocation: "none", "live", "disposed"
    conn,        \* the connection of `with engine.connect()`: "none", "open", "closed"
    heap,        \* the dict objects built by get_table_info, by reference
    inspected,   \* what the database answered for each table introspected, in order
    client,      \* the HybridSearch client: "none", "open", "closed"
    calls        \* the calls made to the models and to the search backend, in order

vars == <<tool, caller, pc, creds, params, locals, err, messages, db, queries, validation,
          engine, conn, heap, inspected, client, calls>>

\* the state of the SQL executor and of the provider
sqlVars == <<db, queries, validation>>
\* the state of the introspection
schemaVars == <<engine, conn, heap, inspected>>
\* the state of the hybrid search
searchVars == <<client, calls>>

----------------------------------------------------------------------------
(* Python values *)

None == "<None>"
NoneStr == <<None>>

\* a key that tool_parameters does not hold
Absent == "<absent>"
AbsentStr == <<Absent>>

\* dict.get(key, default)
Get(d, key, default) == IF d[key] = Absent THEN default ELSE d[key]
\* the same for a parameter whose value is a str
GetText(d, key, default) == IF d[key] = AbsentStr THEN default ELSE d[key]

Truthy(v) == v # None /\ v # ""

NoErr == [cls |-> "", msg |-> "", subject |-> ""]
Exc(c, m, s) == [cls |-> c, msg |-> m, subject |-> s]

\* str.isspace() / the regex class \s
Whitespace == {" ", "\t", "\n"}

Lower == <<"s", "e", "l", "c", "t", "h", "o", "w", "i", "d">>
Upper == <<"S", "E", "L", "C", "T", "H", "O", "W", "I", "D">>

\* re.IGNORECASE folds both sides to one case
Fold(c) ==
    IF \E i \in 1..Len(Lower) : Lower[i] = c
    THEN Upper[CHOOSE i \in 1..Len(Lower) : Lower[i] = c]
    ELSE c

\* str.strip()
Strip(s) ==
    IF \A i \in 1..Len(s) : s[i] \in Whitespace
    THEN <<>>
    ELSE LET first == CHOOSE i \in 1..Len(s) :
                          /\ s[i] \notin Whitespace
                          /\ \A j \in 1..(i-1) : s[j] \in Whitespace
             last  == CHOOSE i \in 1..Len(s) :
                          /\ s[i] \notin Whitespace
                          /\ \A j \in (i+1)..Len(s) : s[j] \in Whitespace
         IN  SubSeq(s, first, last)

----------------------------------------------------------------------------
(* tools/common.py: OceanBaseConfig *)

\* is_valid(): hostname and port and username
is_valid(c) == Truthy(c.hostname) /\ Truthy(c.port) /\ Truthy(c.username)

----------------------------------------------------------------------------
(* tools/execute_sql.py *)

Keywords == { <<"S","E","L","E","C","T">>, <<"S","H","O","W">>, <<"W","I","T","H">> }

\* kw occurs in s at position i (1-based), ignoring case
KeywordAt(s, i, kw) ==
    /\ i + Len(kw) - 1 <= Len(s)
    /\ \A k \in 1..Len(kw) : Fold(s[i + k - 1]) = kw[k]

\* re.match(r'^\s*(SELECT|SHOW|WITH)\s+', sql, re.IGNORECASE)
ReadOnlyMatchNoSep(s) ==
    \E i \in 0..Len(s) : \E kw \in Keywords :
        /\ \A j \in 1..i : s[j] \in Whitespace
        /\ KeywordAt(s, i + 1, kw)

ReadOnlyMatch(s) ==
    \E i \in 0..Len(s) : \E kw \in Keywords :
        /\ \A j \in 1..i : s[j] \in Whitespace
        /\ KeywordAt(s, i + 1, kw)
        /\ i + Len(kw) + 1 <= Len(s)
        /\ s[i + Len(kw) + 1] \in Whitespace

SqlFormats == {"json", "md", "csv", "yaml", "xlsx", "html"}

\* the message kind each supported format yields
MessageKind(fmt) ==
    CASE fmt = "json" -> "json"
      [] fmt = "md"   -> "text"
      [] OTHER        -> "blob"

\* json.loads(config_options) for the option strings of the model:
\* "{}" and "{\"a\": 1}" parse to a dict, "[1]" parses to a list, "{bad" does not parse
ConfigOptionStrings == {None, "", "{}", "{\"a\": 1}", "[1]", "{bad"}
JsonParses(o) == o \in {"{}", "{\"a\": 1}", "[1]"}
JsonIsObject(o) == o \in {"{}", "{\"a\": 1}"}

\* tool_parameters.get("config_options") or "{}"
ConfigOptionsOrDefault(p) ==
    LET o == Get(p, "config_options", None) IN IF Truthy(o) THEN o ELSE "{}"

\* how the handler ends: inside _validate_credentials control returns to the provider
Returned == IF caller = "provider" THEN "probe_returned" ELSE "done"
Raised   == IF caller = "provider" THEN "probe_raised" ELSE "failed"

\* every handler builds the connection config the same way:
\*   ob_config = OceanBaseConfig(self.runtime.credentials)
\*   assert ob_config.is_valid(), f"Invalid OceanBaseConfig: {ob_config}"
ConfigAssertion == Exc("AssertionError", "Invalid OceanBaseConfig", "")
InvalidJsonConfig == Exc("ValueError", "Invalid JSON format for Connect Config", "")

\* the statements offered to Execute-SQL: optional leading whitespace, a first
\* word, and what follows it
SqlLeads == { <<>>, <<" ">>, <<"\n", "\t">> }
SqlHeads == { <<"S","E","L","E","C","T">>, <<"s","e","l","e","c","t">>,
              <<"S","e","L","e","C","t">>, <<"s","h","o","w">>, <<"W","I","T","H">>,
              <<"D","E","L","E","T","E">>, <<"I","N","S","E","R","T">>,
              <<"S","E","L","E","C","T","E","D">>, <<>> }
SqlTails == { <<>>, <<" ">>, <<" ", "1">>, <<"\n", "1", " ">>, <<"*">>, <<"(", "1", ")">> }
SqlTexts == { l \o h \o t : l \in SqlLeads, h \in SqlHeads, t \in SqlTails }

Select1 == <<"S","E","L","E","C","T"," ","1">>

SqlFormatParams == {Absent, "md", "csv", "xml"}

CredentialSets ==
    [hostname : {"", "h"}, port : {None, "2881"}, username : {None, "u"}]

SqlRequests ==
    [sql : SqlTexts \cup {AbsentStr}, format : SqlFormatParams,
     config_options : {Absent} \cup (ConfigOptionStrings \ {None})]

Init ==
    /\ tool = "none"
    /\ caller = "none"
    /\ pc = "idle"
    /\ creds = [hostname |-> None, port |-> None, username |-> None]
    /\ params = [sql |-> AbsentStr]
    /\ locals = [sql |-> <<>>]
    /\ err = NoErr
    /\ messages = <<>>
    /\ db = "none"
    /\ queries = <<>>
    /\ validation = "none"
    /\ engine = "none"
    /\ conn = "none"
    /\ heap = <<>>
    /\ inspected = <<>>
    /\ client = "none"
    /\ calls = <<>>

\* the host invokes Execute-SQL
SqlInvoke ==
    /\ pc = "idle"
    /\ \E c \in CredentialSets, p \in SqlRequests :
          /\ creds' = c
          /\ params' = p
    /\ tool' = "sql"
    /\ pc' = "sql_begin"
    /\ UNCHANGED <<caller, locals, err, messages, db, queries, validation, schemaVars, searchVars>>

\* lines 15-26: read the parameters, parse the options, build the config
SqlPrepare ==
    /\ pc = "sql_begin"
    /\ LET sql == GetText(params, "sql", NoneStr)
           opts == ConfigOptionsOrDefault(params)
       IN  IF sql = NoneStr
           THEN /\ err' = Exc("AttributeError", "'NoneType' object has no attribute 'strip'", "")
                /\ pc' = Raised
                /\ UNCHANGED locals
           ELSE IF ~JsonParses(opts)
           THEN /\ err' = InvalidJsonConfig
                /\ pc' = Raised
                /\ UNCHANGED locals
           ELSE IF ~is_valid(creds)
           THEN /\ err' = ConfigAssertion
                /\ pc' = Raised
                /\ UNCHANGED locals
           ELSE /\ locals' = [sql |-> Strip(sql),
                              return_format |-> Get(params, "format", "json"),
                              config_options |-> opts]
                /\ pc' = "sql_connect"
                /\ UNCHANGED err
    /\ UNCHANGED <<tool, caller, creds, params, messages, db, queries, validation, schemaVars, searchVars>>

\* line 27: db = records.Database(db_uri, **config_options)
SqlConnect ==
    /\ pc = "sql_connect"
    /\ IF ~JsonIsObject(locals.config_options)
       THEN /\ err' = Exc("TypeError", "argument after ** must be a mapping", "")
            /\ pc' = Raised
            /\ UNCHANGED db
       ELSE \/ /\ db' = "open"
               /\ pc' = "sql_try"
               /\ UNCHANGED err
            \/ /\ err' = Exc("DatabaseError", "cannot create the engine", "")
               /\ pc' = Raised
               /\ UNCHANGED db
    /\ UNCHANGED <<tool, caller, creds, params, locals, messages, queries, validation, schemaVars, searchVars>>

\* SqlQuery with the read-only test outside the try block: a rejected statement
\* leaves the handler without passing through finally
SqlQueryOutsideTry ==
    /\ pc = "sql_try"
    /\ IF ReadOnlyMatch(locals.sql)
       THEN /\ queries' = Append(queries, locals.sql)
            /\ \/ /\ pc' = "sql_format"
                  /\ UNCHANGED err
               \/ /\ err' = Exc("DatabaseError", "query failed", "")
                  /\ pc' = "sql_finally"
       ELSE /\ err' = Exc("ValueError", "'sql' should start with 'SELECT|SHOW|WITH'", "")
            /\ pc' = Raised
            /\ UNCHANGED queries
    /\ UNCHANGED <<tool, caller, creds, params, locals, messages, db, validation, schemaVars, searchVars>>

\* lines 29-31 and 66-67: the read-only test, and db.query(sql)
SqlQuery ==
    /\ pc = "sql_try"
    /\ IF ReadOnlyMatch(locals.sql)
       THEN /\ queries' = Append(queries, locals.sql)
            /\ \/ /\ pc' = "sql_format"
                  /\ UNCHANGED err
               \/ /\ err' = Exc("DatabaseError", "query failed", "")
                  /\ pc' = "sql_finally"
       ELSE /\ err' = Exc("ValueError", "'sql' should start with 'SELECT|SHOW|WITH'", "")
            /\ pc' = "sql_finally"
            /\ UNCHANGED queries
    /\ UNCHANGED <<tool, caller, creds, params, locals, messages, db, validation, schemaVars, searchVars>>

\* lines 32-65: render the rows in the requested format and yield the message
SqlFormat ==
    /\ pc = "sql_format"
    /\ IF locals.return_format \in SqlFormats
       THEN \/ /\ messages' = Append(messages, [kind |-> MessageKind(locals.return_format)])
               /\ pc' = "sql_yielded"
               /\ UNCHANGED err
            \/ /\ err' = Exc("ExportError", "cannot render the rows", locals.return_format)
               /\ pc' = "sql_finally"
               /\ UNCHANGED messages
       ELSE /\ err' = Exc("ValueError", "Unsupported format", locals.return_format)
            /\ pc' = "sql_finally"
            /\ UNCHANGED messages
    /\ UNCHANGED <<tool, caller, creds, params, locals, db, queries, validation, schemaVars, searchVars>>

\* the generator is suspended at its yield: the consumer asks for the next message,
\* or (the host only) closes the generator, which raises GeneratorExit at the yield
SqlResume ==
    /\ pc = "sql_yielded"
    /\ \/ UNCHANGED err
       \/ /\ caller = "none"
          /\ err' = Exc("GeneratorExit", "", "")
    /\ pc' = "sql_finally"
    /\ UNCHANGED <<tool, caller, creds, params, locals, messages, db, queries, validation, schemaVars, searchVars>>

\* lines 68-69: finally: db.close()
SqlFinally ==
    /\ pc = "sql_finally"
    /\ db' = "closed"
    /\ pc' = IF err = NoErr THEN Returned ELSE Raised
    /\ UNCHANGED <<tool, caller, creds, params, locals, err, messages, queries, validation, schemaVars, searchVars>>

----------------------------------------------------------------------------
(* provider/oceanbase.py *)

\* lines 12-19: _validate_credentials up to the probe
ValidateCredentials ==
    /\ pc = "idle"
    /\ \E c \in CredentialSets :
          /\ creds' = c
          /\ IF ~is_valid(c)
             THEN /\ validation' = "accepted"
                  /\ pc' = "done"
                  /\ UNCHANGED <<tool, params>>
             ELSE /\ tool' = "sql"
                  /\ params' = [sql |-> Select1, format |-> Absent, config_options |-> Absent]
                  /\ pc' = "sql_begin"
                  /\ UNCHANGED validation
    /\ caller' = "provider"
    /\ UNCHANGED <<locals, err, messages, db, queries, schemaVars, searchVars>>

\* lines 20-23: the probe's messages are consumed; any exception becomes a
\* ToolProviderCredentialValidationError
ProbeEnded ==
    /\ caller = "provider"
    /\ pc \in {"probe_returned", "probe_raised"}
    /\ IF pc = "probe_raised"
       THEN /\ err' = Exc("ToolProviderCredentialValidationError", err.msg, err.subject)
            /\ validation' = "rejected"
            /\ pc' = "failed"
       ELSE /\ validation' = "accepted"
            /\ pc' = "done"
            /\ UNCHANGED err
    /\ UNCHANGED <<tool, caller, creds, params, locals, messages, db, queries, schemaVars, searchVars>>

NextSql ==
    \/ SqlInvoke
    \/ ValidateCredentials
    \/ SqlPrepare
    \/ SqlConnect
    \/ SqlQuery
    \/ SqlFormat
    \/ SqlResume
    \/ SqlFinally
    \/ ProbeEnded

SpecSql == Init /\ [][NextSql]_vars

----------------------------------------------------------------------------
(* tools/common.py: get_table_info, as called by Get-Table-Schema and Text2SQL *)

\* str.split(","): the segments between the commas
RECURSIVE Split(_)
Split(s) ==
    IF \A i \in 1..Len(s) : s[i] # ","
    THEN <<s>>
    ELSE LET k == CHOOSE i \in 1..Len(s) : s[i] = "," /\ \A j \in 1..(i-1) : s[j] # ","
         IN  <<SubSeq(s, 1, k - 1)>> \o Split(SubSeq(s, k + 1, Len(s)))

\* the table names of the model have one character: a segment is the name made of
\* its first character, and the empty segment is the empty name
Name(seg) == IF seg = <<>> THEN "" ELSE seg[1]

\* tables.split(",") if tables else None
SplitTables(text) ==
    IF text \in {AbsentStr, <<>>} THEN <<>> ELSE [k \in DOMAIN Split(text) |-> Name(Split(text)[k])]

\* the dict built for one table (lines 50-82)
TableInfo(t, include_constraint) ==
    LET keys == {"table_name", "columns", "comment"}
                \cup (IF include_constraint
                      THEN {"primary_keys", "foreign_keys", "indexes"} ELSE {})
    IN  [k \in keys |-> IF k = "table_name" THEN <<t>> ELSE <<k, t>>]

\* the dict as it stands when get_indexes raises (lines 50-74)
PartialTableInfo(t) ==
    [k \in {"table_name", "columns", "comment", "primary_keys", "foreign_keys"} |->
        IF k = "table_name" THEN <<t>> ELSE <<k, t>>]

\* f"Error getting table info: {str(e)}"
ErrorString(t) == <<"Error getting table info", t>>

\* d[key] = value on a dict
SetItem(d, key, value) == [k \in DOMAIN d \cup {key} |-> IF k = key THEN value ELSE d[k]]

\* what inspecting one table can do: succeed, raise in get_columns (before
\* table_info is assigned), or raise in get_indexes (after it is assigned)
Outcomes(include_constraint) ==
    {"ok", "get_columns"} \cup (IF include_constraint THEN {"get_indexes"} ELSE {})

\* the tables the database holds, as inspector.get_table_names() lists them
DbTableLists == { <<>>, <<"a">>, <<"b", "a">> }

TableTexts == { AbsentStr, <<>>, <<"a">>, <<"a", ",", "b">>, <<"b", ",", "a">>,
                <<"a", ",", "b", ",", "c">>, <<"a", ",">> }

SchemaRequests ==
    [tables : TableTexts, config_options : {Absent} \cup (ConfigOptionStrings \ {None})]

Text2SqlRequests ==
    [query : {AbsentStr, <<" ", "q">>}, tables : {AbsentStr, <<"a", ",", "b">>},
     config_options : {Absent, "{}", "{bad"}]

\* the host invokes Get-Table-Schema
SchemaInvoke ==
    /\ pc = "idle"
    /\ \E c \in CredentialSets, p \in SchemaRequests :
          /\ creds' = c
          /\ params' = p
    /\ tool' = "schema"
    /\ pc' = "schema_begin"
    /\ UNCHANGED <<caller, locals, err, messages, sqlVars, schemaVars, searchVars>>

\* get_table_schema.py lines 12-24
SchemaPrepare ==
    /\ pc = "schema_begin"
    /\ LET opts == ConfigOptionsOrDefault(params)
       IN  IF ~JsonParses(opts)
           THEN /\ err' = InvalidJsonConfig
                /\ pc' = "failed"
                /\ UNCHANGED locals
           ELSE IF ~is_valid(creds)
           THEN /\ err' = ConfigAssertion
                /\ pc' = "failed"
                /\ UNCHANGED locals
           ELSE /\ locals' = [config_options |-> opts,
                              tables |-> SplitTables(params.tables),
                              include_constraint |-> TRUE,
                              i |-> 1, table_infos |-> <<>>, table_info |-> 0]
                /\ pc' = "gti_create"
                /\ UNCHANGED err
    /\ UNCHANGED <<tool, caller, creds, params, messages, sqlVars, schemaVars, searchVars>>

\* the host invokes Text2SQL
Text2SqlInvoke ==
    /\ pc = "idle"
    /\ \E c \in CredentialSets, p \in Text2SqlRequests :
          /\ creds' = c
          /\ params' = p
    /\ tool' = "text2sql"
    /\ pc' = "t2s_begin"
    /\ UNCHANGED <<caller, locals, err, messages, sqlVars, schemaVars, searchVars>>

\* text2sql.py lines 64-77
Text2SqlPrepare ==
    /\ pc = "t2s_begin"
    /\ LET query == GetText(params, "query", NoneStr)
           opts == ConfigOptionsOrDefault(params)
       IN  IF query = NoneStr
           THEN /\ err' = Exc("AttributeError", "'NoneType' object has no attribute 'strip'", "")
                /\ pc' = "failed"
                /\ UNCHANGED locals
           ELSE IF ~JsonParses(opts)
           THEN /\ err' = InvalidJsonConfig
                /\ pc' = "failed"
                /\ UNCHANGED locals
           ELSE IF ~is_valid(creds)
           THEN /\ err' = ConfigAssertion
                /\ pc' = "failed"
                /\ UNCHANGED locals
           ELSE /\ locals' = [query |-> Strip(query),
                              config_options |-> opts,
                              tables |-> SplitTables(params.tables),
                              include_constraint |-> FALSE,
                              i |-> 1, table_infos |-> <<>>, table_info |-> 0]
                /\ pc' = "gti_create"
                /\ UNCHANGED err
    /\ UNCHANGED <<tool, caller, creds, params, messages, sqlVars, schemaVars, searchVars>>

\* common.py lines 42-44: create the engine, inspect it (which connects once), and
\* default the table list to every table of the database
GtiCreate ==
    /\ pc = "gti_create"
    /\ IF ~JsonIsObject(locals.config_options)
       THEN /\ err' = Exc("TypeError", "argument after ** must be a mapping", "")
            /\ pc' = "failed"
            /\ UNCHANGED <<locals, engine>>
       ELSE \/ /\ err' = Exc("DatabaseError", "cannot create the engine", "")
               /\ pc' = "failed"
               /\ UNCHANGED <<locals, engine>>
            \/ /\ engine' = "live"
               /\ err' = Exc("DatabaseError", "cannot inspect the database", "")
               /\ pc' = "failed"
               /\ UNCHANGED locals
            \/ /\ engine' = "live"
               /\ IF locals.tables = <<>>
                  THEN \E names \in DbTableLists : locals' = [locals EXCEPT !.tables = names]
                  ELSE UNCHANGED locals
               /\ pc' = "gti_connect"
               /\ UNCHANGED err
    /\ UNCHANGED <<tool, caller, creds, params, messages, sqlVars, conn, heap, inspected, searchVars>>

\* common.py line 47: with engine.connect() as _
GtiConnect ==
    /\ pc = "gti_connect"
    /\ \/ /\ conn' = "open"
          /\ pc' = "gti_loop"
          /\ UNCHANGED err
       \/ /\ err' = Exc("DatabaseError", "cannot connect", "")
          /\ pc' = "failed"
          /\ UNCHANGED conn
    /\ UNCHANGED <<tool, caller, creds, params, locals, messages, sqlVars, engine, heap, inspected, searchVars>>

\* the except clause (lines 85-86): table_info[table_name] = f"Error getting table
\* info: ...", where table_info is the local variable of the loop body: unbound when
\* no table was built yet, else the dict built last
RecordError(t, ref) ==
    IF ref = 0
    THEN /\ err' = Exc("UnboundLocalError", "local variable referenced before assignment",
                       "table_info")
         /\ pc' = "failed"
         /\ conn' = "closed"
         /\ UNCHANGED <<heap, locals>>
    ELSE /\ heap' = [heap EXCEPT ![ref] = SetItem(@, t, ErrorString(t))]
         /\ locals' = [locals EXCEPT !.i = @ + 1]
         /\ UNCHANGED <<err, pc, conn>>

\* common.py lines 48-86: one iteration of the loop over the tables
GtiTable ==
    /\ pc = "gti_loop"
    /\ locals.i <= Len(locals.tables)
    /\ LET t == locals.tables[locals.i]
       IN  \E outcome \in Outcomes(locals.include_constraint) :
             /\ inspected' = Append(inspected, [table |-> t, outcome |-> outcome])
             /\ CASE outcome = "ok" ->
                       /\ heap' = Append(heap, TableInfo(t, locals.include_constraint))
                       /\ locals' = [locals EXCEPT !.i = @ + 1,
                                                   !.table_info = Len(heap) + 1,
                                                   !.table_infos = SetItem(@, t, Len(heap) + 1)]
                       /\ UNCHANGED <<err, pc, conn>>
                  [] outcome = "get_columns" ->
                       RecordError(t, locals.table_info)
                  [] outcome = "get_indexes" ->
                       /\ heap' = Append(heap, SetItem(PartialTableInfo(t), t, ErrorString(t)))
                       /\ locals' = [locals EXCEPT !.i = @ + 1,
                                                   !.table_info = Len(heap) + 1]
                       /\ UNCHANGED <<err, pc, conn>>
    /\ UNCHANGED <<tool, caller, creds, params, messages, sqlVars, engine, searchVars>>

\* the mapping get_table_info returns, with each reference replaced by its object
Deref(table_infos) == [t \in DOMAIN table_infos |-> heap[table_infos[t]]]

\* common.py lines 47 and 88: the with block ends, the mapping is returned
GtiReturn ==
    /\ pc = "gti_loop"
    /\ locals.i > Len(locals.tables)
    /\ conn' = "closed"
    /\ pc' = IF tool = "schema" THEN "schema_yield" ELSE "t2s_llm"
    /\ UNCHANGED <<tool, caller, creds, params, locals, err, messages, sqlVars,
                   engine, heap, inspected, searchVars>>

\* get_table_schema.py line 27: yield self.create_json_message(table_info)
SchemaYield ==
    /\ pc = "schema_yield"
    /\ messages' = Append(messages, [kind |-> "json", payload |-> Deref(locals.table_infos)])
    /\ pc' = "done"
    /\ UNCHANGED <<tool, caller, creds, params, locals, err, sqlVars, schemaVars, searchVars>>

\* text2sql.py lines 79-90: one call of the language model, and its text
Text2SqlGenerate ==
    /\ pc = "t2s_llm"
    /\ \/ /\ messages' = Append(messages, [kind |-> "text"])
          /\ pc' = "done"
          /\ UNCHANGED err
       \/ /\ err' = Exc("InvokeError", "the model call failed", "")
          /\ pc' = "failed"
          /\ UNCHANGED messages
    /\ UNCHANGED <<tool, caller, creds, params, locals, sqlVars, schemaVars, searchVars>>

NextSchema ==
    \/ SchemaInvoke
    \/ SchemaPrepare
    \/ Text2SqlInvoke
    \/ Text2SqlPrepare
    \/ GtiCreate
    \/ GtiConnect
    \/ GtiTable
    \/ GtiReturn
    \/ SchemaYield
    \/ Text2SqlGenerate

SpecSchema == Init /\ [][NextSchema]_vars

----------------------------------------------------------------------------
(* tools/hybrid_search.py: _invoke, lines 16-56 *)

\* top_k = tool_parameters.get("top_k", 10)
DefaultTopK == 10

\* [t.strip() for t in table_names.split(",")]
ParseTables(text) == [k \in DOMAIN Split(text) |-> Name(Strip(Split(text)[k]))]

\* json.loads(filter_param) for the filter strings of the model: "{}" parses to the
\* empty dict, "{\"f\": 1}" to a dict with one key, "{bad" does not parse
FilterStrings == {"", "{}", "{\"f\": 1}", "{bad"}
FilterParses(f) == f \in {"{}", "{\"f\": 1}"}
\* the parsed filter: None when none was given, "{}" the empty dict
ParseFilter(f) == IF f = "" THEN None ELSE f
\* `if filter_dict`: neither None nor the empty dict
FilterTruthy(fd) == fd \notin {None, "{}"}

\* `not embedding_model_config`, `not rerank_model_config`: None or the empty dict
ModelConfigs == {Absent, "{}", "config"}
ModelConfigTruthy(m) == m \notin {Absent, None, "{}"}

Required(field) == Exc("ValueError", "parameter is required", field)
InvalidJsonFilter == Exc("ValueError", "Invalid JSON format for filter parameter", "")
RerankRequired ==
    Exc("ValueError", "rerank_model is required when multiple table names are specified",
        "rerank_model")

\* the values the model gives each parameter of Hybrid-Search
HybridValues ==
    [table_names     |-> { AbsentStr, <<" ">>, <<" ", "b", " ">>, <<"a", " ", ",", "b">>,
                           <<"a", ",">> },
     query           |-> { AbsentStr, <<" ">> },
     \* top_k is an integer of the caller's choice: <<k>>, or <<>> when the key is absent
     top_k           |-> {<<>>} \cup { <<k>> : k \in {-1, 0, 1, 2} },
     embedding_model |-> { Absent, "{}" },
     rerank_model    |-> { "config" },
     filter          |-> { "{}", "{\"f\": 1}", "{bad" },
     config_options  |-> { "[1]", "{bad" },
     format          |-> { "md", "xml" }]

\* the request every parameter of which is in order
PlainRequest ==
    [table_names |-> <<"a">>, query |-> <<" ", "q">>, top_k |-> <<3>>,
     embedding_model |-> "config", rerank_model |-> Absent, filter |-> Absent,
     config_options |-> Absent, format |-> Absent]

\* the requests of the model: the plain request with up to two parameters changed
HybridRequests ==
    { [[PlainRequest EXCEPT ![k1] = v1] EXCEPT ![k2] = v2] :
         <<k1, v1, k2, v2>> \in
            UNION { { <<j1, w1, j2, w2>> : w1 \in HybridValues[j1], w2 \in HybridValues[j2] } :
                       <<j1, j2>> \in (DOMAIN HybridValues) \X (DOMAIN HybridValues) } }

\* the host invokes Hybrid-Search
HybridInvoke ==
    /\ pc = "idle"
    /\ \E c \in CredentialSets, p \in HybridRequests :
          /\ creds' = c
          /\ params' = p
    /\ tool' = "hybrid"
    /\ pc' = "hs_begin"
    /\ UNCHANGED <<caller, locals, err, messages, sqlVars, schemaVars, searchVars>>

\* HybridValidation with the rerank requirement applied from one table on
\* (len(tables) >= 1 in place of len(tables) > 1)
HybridValidationFromOneTable(p, c) ==
    LET table_names == Strip(GetText(p, "table_names", <<>>))
        query       == Strip(GetText(p, "query", <<>>))
        embedding   == Get(p, "embedding_model", None)
        rerank      == Get(p, "rerank_model", None)
        filter      == Get(p, "filter", "")
        opts        == ConfigOptionsOrDefault(p)
    IN  IF table_names = <<>> THEN Required("table_names")
        ELSE IF query = <<>> THEN Required("query")
        ELSE IF ~ModelConfigTruthy(embedding) THEN Required("embedding_model")
        ELSE IF ~JsonParses(opts) THEN InvalidJsonConfig
        ELSE IF filter # "" /\ ~FilterParses(filter) THEN InvalidJsonFilter
        ELSE IF Len(ParseTables(table_names)) >= 1 /\ ~ModelConfigTruthy(rerank)
             THEN RerankRequired
        ELSE IF ~is_valid(c) THEN ConfigAssertion
        ELSE NoErr

\* the checks of lines 17-55, in the order of the code: the first that fails
\* decides the exception; NoErr when all pass
HybridValidation(p, c) ==
    LET table_names == Strip(GetText(p, "table_names", <<>>))
        query       == Strip(GetText(p, "query", <<>>))
        embedding   == Get(p, "embedding_model", None)
        rerank      == Get(p, "rerank_model", None)
        filter      == Get(p, "filter", "")
        opts        == ConfigOptionsOrDefault(p)
    IN  IF table_names = <<>> THEN Required("table_names")
        ELSE IF query = <<>> THEN Required("query")
        ELSE IF ~ModelConfigTruthy(embedding) THEN Required("embedding_model")
        ELSE IF ~JsonParses(opts) THEN InvalidJsonConfig
        ELSE IF filter # "" /\ ~FilterParses(filter) THEN InvalidJsonFilter
        ELSE IF Len(ParseTables(table_names)) > 1 /\ ~ModelConfigTruthy(rerank)
             THEN RerankRequired
        ELSE IF ~is_valid(c) THEN ConfigAssertion
        ELSE NoErr

\* lines 17-56: read and validate the parameters
HybridPrepare ==
    /\ pc = "hs_begin"
    /\ LET e == HybridValidation(params, creds)
       IN  IF e # NoErr
           THEN /\ err' = e
                /\ pc' = "failed"
                /\ UNCHANGED locals
           ELSE /\ locals' = [tables |-> ParseTables(Strip(params.table_names)),
                              query |-> Strip(params.query),
                              top_k |-> IF params.top_k = <<>> THEN DefaultTopK
                                        ELSE params.top_k[1],
                              rerank_model_config |-> Get(params, "rerank_model", None),
                              filter_dict |-> ParseFilter(Get(params, "filter", "")),
                              config_options |-> ConfigOptionsOrDefault(params),
                              i |-> 1,
                              table_info |-> <<>>,
                              embedded_query |-> None,
                              all_results |-> <<>>,
                              search_results |-> <<>>]
                /\ pc' = "hs_engine"
                /\ UNCHANGED err
    /\ UNCHANGED <<tool, caller, creds, params, messages, sqlVars, schemaVars, searchVars>>

----------------------------------------------------------------------------
(* tools/hybrid_search.py: _get_table_structure and _embed_query *)

\* the columns the database reports for a table: its vector columns (type name
\* containing VECTOR or EMBEDDING) and the columns of its FULLTEXT indexes
ColumnSets ==
    [vector_columns : { <<>>, <<"v1", "v2">> }, fulltext_columns : { <<>>, <<"f1", "f2">> }]

\* lines 81-82: create the engine and inspect it (which connects once)
HybridEngine ==
    /\ pc = "hs_engine"
    /\ IF ~JsonIsObject(locals.config_options)
       THEN /\ err' = Exc("TypeError", "argument after ** must be a mapping", "")
            /\ pc' = "failed"
            /\ UNCHANGED engine
       ELSE \/ /\ err' = Exc("DatabaseError", "cannot create the engine", "")
               /\ pc' = "failed"
               /\ UNCHANGED engine
            \/ /\ engine' = "live"
               /\ err' = Exc("DatabaseError", "cannot inspect the database", "")
               /\ pc' = "failed"
            \/ /\ engine' = "live"
               /\ pc' = "hs_connect"
               /\ UNCHANGED err
    /\ UNCHANGED <<tool, caller, creds, params, locals, messages, sqlVars, conn, heap,
                   inspected, searchVars>>

\* line 85: with engine.connect() as _
HybridConnect ==
    /\ pc = "hs_connect"
    /\ \/ /\ conn' = "open"
          /\ pc' = "hs_table"
          /\ UNCHANGED err
       \/ /\ err' = Exc("DatabaseError", "cannot connect", "")
          /\ pc' = "failed"
          /\ UNCHANGED conn
    /\ UNCHANGED <<tool, caller, creds, params, locals, messages, sqlVars, engine, heap,
                   inspected, searchVars>>

\* the loop of _get_table_structure with the test for a table without a vector
\* or full-text column made as soon as the table is introspected
HybridTableChecked ==
    /\ pc = "hs_table"
    /\ locals.i <= Len(locals.tables)
    /\ LET t == locals.tables[locals.i]
       IN  \/ /\ inspected' = Append(inspected, [table |-> t, outcome |-> "get_columns"])
              /\ err' = Exc("ValueError", "Error getting table info for", t)
              /\ conn' = "closed"
              /\ pc' = "failed"
              /\ UNCHANGED locals
           \/ \E cols \in ColumnSets :
                /\ inspected' = Append(inspected, [table |-> t, outcome |-> "ok"])
                /\ locals' = [locals EXCEPT !.i = @ + 1,
                                            !.table_info = SetItem(@, t, cols)]
                /\ IF cols.vector_columns = <<>> /\ cols.fulltext_columns = <<>>
                   THEN /\ err' = Exc("ValueError",
                                      "Table does not have a vector index or full-text index", t)
                        /\ conn' = "closed"
                        /\ pc' = "failed"
                   ELSE UNCHANGED <<err, conn, pc>>
    /\ UNCHANGED <<tool, caller, creds, params, messages, sqlVars, engine, heap, searchVars>>

\* lines 86-113: one iteration of the loop over the tables; an exception leaves
\* the with block (closing the connection) and the function
HybridTable ==
    /\ pc = "hs_table"
    /\ locals.i <= Len(locals.tables)
    /\ LET t == locals.tables[locals.i]
       IN  \/ /\ inspected' = Append(inspected, [table |-> t, outcome |-> "get_columns"])
              /\ err' = Exc("ValueError", "Error getting table info for", t)
              /\ conn' = "closed"
              /\ pc' = "failed"
              /\ UNCHANGED locals
           \/ \E cols \in ColumnSets :
                /\ inspected' = Append(inspected, [table |-> t, outcome |-> "ok"])
                /\ locals' = [locals EXCEPT !.i = @ + 1,
                                            !.table_info = SetItem(@, t, cols)]
                /\ UNCHANGED <<err, conn, pc>>
    /\ UNCHANGED <<tool, caller, creds, params, messages, sqlVars, engine, heap, searchVars>>

\* lines 85 and 115-116: the with block ends, engine.dispose(), return
HybridDispose ==
    /\ pc = "hs_table"
    /\ locals.i > Len(locals.tables)
    /\ conn' = "closed"
    /\ engine' = "disposed"
    /\ pc' = "hs_embed"
    /\ UNCHANGED <<tool, caller, creds, params, locals, err, messages, sqlVars, heap,
                   inspected, searchVars>>

\* lines 118-132: one call of the embedding model
HybridEmbed ==
    /\ pc = "hs_embed"
    /\ calls' = Append(calls, [op |-> "embed", texts |-> <<locals.query>>])
    /\ \/ /\ err' = Exc("InvokeError", "the model call failed", "")
          /\ pc' = "failed"
          /\ UNCHANGED locals
       \/ /\ err' = Exc("ValueError", "Failed to generate embeddings for the query", "")
          /\ pc' = "failed"
          /\ UNCHANGED locals
       \/ /\ locals' = [locals EXCEPT !.embedded_query = "embedding", !.i = 1]
          /\ pc' = "hs_client"
          /\ UNCHANGED err
    /\ UNCHANGED <<tool, caller, creds, params, messages, sqlVars, schemaVars, client>>

----------------------------------------------------------------------------
(* tools/hybrid_search.py: _perform_hybrid_search *)

\* the largest relevance score the backend gives in the model
MaxScore == 2
\* the most hits the backend returns for one table in the model
MaxHits == 2

Min(a, b) == IF a <= b THEN a ELSE b
Max(a, b) == IF a >= b THEN a ELSE b

\* s[:k] on a list
Slice(s, k) ==
    IF k >= 0 THEN SubSeq(s, 1, Min(k, Len(s))) ELSE SubSeq(s, 1, Max(Len(s) + k, 0))

\* a result that is no dict (a plain row) is the function with the one key "__str__"
IsDict(h) == "__str__" \notin DOMAIN h
PlainRow(t, k) == [x \in {"__str__"} |-> <<"row", t, k>>]

\* dict.get(key, 0)
GetOrZero(h, key) == IF key \in DOMAIN h THEN h[key] ELSE 0

\* list.sort(key=lambda x: x.get(key, 0), reverse=True): stable, descending
RECURSIVE SortDescending(_, _)
SortDescending(s, key) ==
    IF Len(s) <= 1
    THEN s
    ELSE LET rest == SortDescending(SubSeq(s, 1, Len(s) - 1), key)
             x    == s[Len(s)]
             pos  == Cardinality({j \in 1..Len(rest) :
                                     GetOrZero(rest[j], key) >= GetOrZero(x, key)})
         IN  SubSeq(rest, 1, pos) \o <<x>> \o SubSeq(rest, pos + 1, Len(rest))

\* the k-th hit the backend returns for table t; score 0: the hit carries no _score
BackendHit(t, k, score) ==
    LET keys == {"_id", "_source"} \cup (IF score > 0 THEN {"_score"} ELSE {})
    IN  [key \in keys |->
            IF key = "_id" THEN <<t, k>>
            ELSE IF key = "_score" THEN score
            ELSE [text |-> <<"text", t, k>>]]

\* a hit whose _source is no dict
OddHit(t) ==
    [key \in {"_id", "_score", "_source"} |->
        IF key = "_id" THEN <<t, 1>>
        ELSE IF key = "_score" THEN 1
        ELSE [x \in {"__str__"} |-> <<"text", t, 1>>]]

\* a hit whose text holds a "|"
PipeHit(t) ==
    [key \in {"_id", "_score", "_source"} |->
        IF key = "_id" THEN <<t, 1>>
        ELSE IF key = "_score" THEN 1
        ELSE [text |-> <<"|", t, 1>>]]

\* a dict of the backend that is no hit
BackendRow(t, k) == [key \in {"row"} |-> <<t, k>>]

SeqsUpTo(S, n) == UNION { [1..m -> S] : m \in 0..n }

\* what hybrid_client.search can answer for table t: an exception, a dict with
\* "hits", a dict without, a list of dicts and plain rows, or anything else
Responses(t) ==
    { [shape |-> "raise", items |-> <<>>],
      [shape |-> "other", items |-> <<>>],
      [shape |-> "dict",  items |-> <<BackendRow(t, 1)>>],
      [shape |-> "list",  items |-> <<BackendRow(t, 1), PlainRow(t, 2)>>],
      [shape |-> "list",  items |-> <<PlainRow(t, 1)>>],
      [shape |-> "hits",  items |-> <<OddHit(t)>>],
      [shape |-> "hits",  items |-> <<PipeHit(t)>>] }
    \cup { [shape |-> "hits", items |-> [k \in DOMAIN scores |-> BackendHit(t, k, scores[k])]] :
               scores \in SeqsUpTo(0..MaxScore, MaxHits) }

\* the search request with the filter put in place of the query, not into it
SearchBodyFilterOnly(cols, query, embedded_query, top_k, filter_dict) ==
    LET match == [bool |-> [should |->
                     << [match |-> (cols.fulltext_columns[1] :> [query |-> query])] >>]]
        base  == [key \in {"size"} |-> top_k]
        knn   == IF cols.vector_columns # <<>>
                 THEN SetItem(base, "knn", [field |-> cols.vector_columns[1], k |-> top_k,
                                            query_vector |-> embedded_query])
                 ELSE base
        text  == IF cols.fulltext_columns # <<>> THEN SetItem(knn, "query", match) ELSE knn
    IN  IF ~FilterTruthy(filter_dict) THEN text
        ELSE SetItem(text, "query", [bool |-> [filter |-> filter_dict]])

\* lines 173-217: the search request for one table
SearchBody(cols, query, embedded_query, top_k, filter_dict) ==
    LET match == [bool |-> [should |->
                     << [match |-> (cols.fulltext_columns[1] :> [query |-> query])] >>]]
        base  == [key \in {"size"} |-> top_k]
        knn   == IF cols.vector_columns # <<>>
                 THEN SetItem(base, "knn", [field |-> cols.vector_columns[1], k |-> top_k,
                                            query_vector |-> embedded_query])
                 ELSE base
        text  == IF cols.fulltext_columns # <<>> THEN SetItem(knn, "query", match) ELSE knn
    IN  IF ~FilterTruthy(filter_dict) THEN text
        ELSE IF "query" \in DOMAIN text
        THEN SetItem(text, "query", [bool |-> SetItem(text["query"].bool, "filter", filter_dict)])
        ELSE SetItem(text, "query", [bool |-> [filter |-> filter_dict]])

\* lines 224-239: the results of one table, each dict tagged with the table
Normalise(response, t) ==
    IF response.shape \in {"hits", "dict", "list"}
    THEN [k \in DOMAIN response.items |->
             IF IsDict(response.items[k])
             THEN SetItem(response.items[k], "_table", t)
             ELSE response.items[k]]
    ELSE <<>>

\* table_info.get(table_name, {}).get("vector_columns", []) and the same for the
\* full-text columns
ColumnsOf(table_info, t) ==
    IF t \in DOMAIN table_info THEN table_info[t]
    ELSE [vector_columns |-> <<>>, fulltext_columns |-> <<>>]

\* the test of line 164 with `or` in place of `and`
UnsearchableEither(cols) == cols.vector_columns = <<>> \/ cols.fulltext_columns = <<>>

\* line 164: not vector_columns and not fulltext_columns
Unsearchable(cols) == cols.vector_columns = <<>> /\ cols.fulltext_columns = <<>>

NoIndexError(t) ==
    Exc("ValueError", "Table does not have a vector index or full-text index", t)

\* lines 148-156: the HybridSearch client
HybridClient ==
    /\ pc = "hs_client"
    /\ \/ /\ client' = "open"
          /\ pc' = "hs_search"
          /\ UNCHANGED err
       \/ /\ err' = Exc("DatabaseError", "cannot create the search client", "")
          /\ pc' = "failed"
          /\ UNCHANGED client
    /\ UNCHANGED <<tool, caller, creds, params, locals, messages, sqlVars, schemaVars, calls>>

\* lines 158-241: one iteration of the loop over the tables
HybridSearchTable ==
    /\ pc = "hs_search"
    /\ locals.i <= Len(locals.tables)
    /\ LET t    == locals.tables[locals.i]
           cols == ColumnsOf(locals.table_info, t)
           body == SearchBody(cols, locals.query, locals.embedded_query, locals.top_k,
                              locals.filter_dict)
       IN  IF Unsearchable(cols)
           THEN /\ err' = NoIndexError(t)
                /\ pc' = "failed"
                /\ UNCHANGED <<locals, calls>>
           ELSE /\ calls' = Append(calls, [op |-> "search", index |-> t, body |-> body])
                /\ \E response \in Responses(t) :
                      IF response.shape = "raise"
                      THEN /\ err' = Exc("ValueError", "Error executing hybrid search on table", t)
                           /\ pc' = "failed"
                           /\ UNCHANGED locals
                      ELSE /\ locals' = [locals EXCEPT
                                            !.i = @ + 1,
                                            !.all_results = @ \o Normalise(response, t)]
                           /\ UNCHANGED <<err, pc>>
    /\ UNCHANGED <<tool, caller, creds, params, messages, sqlVars, schemaVars, client>>

\* the merge without the sort of line 246
MergeResultsUnsorted(all_results, top_k) == Slice(all_results, top_k)

\* lines 243-249: sort by score when the first result is a dict with a score,
\* keep the first top_k
MergeResults(all_results, top_k) ==
    IF all_results # <<>> /\ IsDict(all_results[1]) /\ "_score" \in DOMAIN all_results[1]
    THEN Slice(SortDescending(all_results, "_score"), top_k)
    ELSE Slice(all_results, top_k)

\* lines 243-249, and line 70
HybridMerge ==
    /\ pc = "hs_search"
    /\ locals.i > Len(locals.tables)
    /\ LET all == locals.all_results
       IN  IF /\ all # <<>> /\ IsDict(all[1]) /\ "_score" \in DOMAIN all[1]
              /\ \E k \in DOMAIN all : ~IsDict(all[k])
           THEN \* the sort key calls .get on a result that is no dict
                /\ err' = Exc("AttributeError", "object has no attribute 'get'", "")
                /\ pc' = "failed"
                /\ UNCHANGED locals
           ELSE /\ locals' = [locals EXCEPT
                                 !.search_results = MergeResults(all, locals.top_k)]
                /\ pc' = IF /\ ModelConfigTruthy(locals.rerank_model_config)
                            /\ MergeResults(all, locals.top_k) # <<>>
                         THEN "hs_rerank" ELSE "hs_format"
                /\ UNCHANGED err
    /\ UNCHANGED <<tool, caller, creds, params, messages, sqlVars, schemaVars, searchVars>>

----------------------------------------------------------------------------
(* tools/hybrid_search.py: _rerank_results and _format_results *)

\* the keys of the dicts of the model, in the order the dicts hold them
KeyOrder == <<"_id", "_score", "_source", "row", "text", "_table", "_rerank_score">>

\* d.values(), without the None values
Values(d) ==
    LET keys == SelectSeq(KeyOrder, LAMBDA k : k \in DOMAIN d)
    IN  [j \in DOMAIN keys |-> d[keys[j]]]

\* lines 264-273 raise for a result whose document is no dict: doc.values()
HasValues(result) ==
    /\ IsDict(result)
    /\ "_source" \in DOMAIN result => IsDict(result["_source"])

\* lines 264-273: " ".join(str(v) for v in doc.values() if v is not None)
DocText(result) ==
    IF "_source" \in DOMAIN result THEN Values(result["_source"]) ELSE Values(result)

\* what the rerank model can answer: an exception, or (index, score) documents
\* (indexes are 0-based, as in Python)
RerankDocs == [index : 0..MaxHits, score : {1, 2}]
RerankReplies ==
    { [raises |-> TRUE, docs |-> <<>>], [raises |-> FALSE, docs |-> <<>>] }
    \cup { [raises |-> FALSE, docs |-> <<d>>] : d \in RerankDocs }
    \cup { [raises |-> FALSE, docs |-> <<d, e>>] : d \in RerankDocs, e \in RerankDocs }

\* the mapping of lines 300-304 by position in the reply, not by returned index
RerankedByPosition(results, docs, top_k) ==
    Slice(SortDescending([k \in DOMAIN docs |->
                             SetItem(results[Min(k, Len(results))], "_rerank_score",
                                     docs[k].score)],
                         "_rerank_score"),
          top_k)

\* lines 299-308: the hits at the returned indexes, with their rerank scores
Reranked(results, docs, top_k) ==
    Slice(SortDescending([k \in DOMAIN docs |->
                             SetItem(results[docs[k].index + 1], "_rerank_score", docs[k].score)],
                         "_rerank_score"),
          top_k)

\* lines 276-315: the try block of _rerank_results
RerankOutcome(results, reply, top_k) ==
    IF reply.raises \/ reply.docs = <<>> THEN results
    ELSE IF \E k \in DOMAIN reply.docs : reply.docs[k].index + 1 > Len(results)
         THEN results     \* IndexError, caught at line 309
         ELSE Reranked(results, reply.docs, top_k)

\* lines 70-71 and 251-315: _rerank_results
HybridRerank ==
    /\ pc = "hs_rerank"
    /\ LET results == locals.search_results
       IN  IF \E k \in DOMAIN results : ~HasValues(results[k])
           THEN /\ err' = Exc("AttributeError", "object has no attribute 'values'", "")
                /\ pc' = "failed"
                /\ UNCHANGED <<locals, calls>>
           ELSE \E reply \in RerankReplies :
                  /\ calls' = Append(calls, [op |-> "rerank",
                                             docs |-> [k \in DOMAIN results |-> DocText(results[k])],
                                             reply |-> reply])
                  /\ locals' = [locals EXCEPT
                                   !.search_results = RerankOutcome(results, reply, locals.top_k)]
                  /\ pc' = "hs_format"
                  /\ UNCHANGED err
    /\ UNCHANGED <<tool, caller, creds, params, messages, sqlVars, schemaVars, client>>

\* sorted(list(all_keys)): the keys of the model in code point order
SortedKeyOrder == <<"_id", "_rerank_score", "_score", "_source", "_table", "row", "text">>
SortedKeys(keys) == SelectSeq(SortedKeyOrder, LAMBDA k : k \in keys)

\* str(n) for the small non-negative integers of the model
Digits == <<"0", "1", "2", "3", "4", "5", "6", "7", "8", "9">>
StrInt(n) == <<Digits[n + 1]>>

\* str of a text of the backend, as a sequence of characters and words
StrText(x) == <<x[1], x[2], Digits[x[3] + 1]>>

\* line 344: str(value), for the value a result holds under key
StrValue(key, v) ==
    IF key \in {"_score", "_rerank_score"} THEN StrInt(v)
    ELSE IF key = "_table" THEN <<v>>
    ELSE IF key \in {"_id", "row"} THEN <<"(", v[1], ",", " ">> \o StrInt(v[2]) \o <<")">>
    ELSE IF key = "_source" /\ IsDict(v)
    THEN <<"{", "'text'", ":", " ">> \o StrText(v.text) \o <<"}">>
    ELSE IF key = "_source" THEN StrText(v["__str__"])
    ELSE StrText(v)

\* line 344: .replace("|", "\\|")
RECURSIVE EscapePipes(_)
EscapePipes(s) ==
    IF s = <<>> THEN <<>>
    ELSE (IF Head(s) = "|" THEN <<"\\", "|">> ELSE <<Head(s)>>) \o EscapePipes(Tail(s))

\* sep.join(parts)
RECURSIVE Join(_, _)
Join(parts, sep) ==
    IF parts = <<>> THEN <<>>
    ELSE IF Len(parts) = 1 THEN parts[1]
    ELSE parts[1] \o sep \o Join(Tail(parts), sep)

\* lines 336, 337, 346: "| " + " | ".join(cells) + " |"
MarkdownRow(cells) == <<"|", " ">> \o Join(cells, <<" ", "|", " ">>) \o <<" ", "|">>

\* lines 329-348: the header, the separator and the rows of the markdown table,
\* joined by newlines
MarkdownTable(results) ==
    LET headers == SortedKeys(UNION { DOMAIN results[k] : k \in DOMAIN results })
        md_lines ==
            << MarkdownRow([j \in DOMAIN headers |-> <<headers[j]>>]),
               MarkdownRow([j \in DOMAIN headers |-> <<"---">>]) >>
            \o [k \in DOMAIN results |->
                   MarkdownRow([j \in DOMAIN headers |->
                       IF headers[j] \in DOMAIN results[k]
                       THEN EscapePipes(StrValue(headers[j], results[k][headers[j]]))
                       ELSE <<>>])]
    IN  Join(md_lines, <<"\n">>)

\* lines 74-75 and 317-350: _format_results
HybridFormat ==
    /\ pc = "hs_format"
    /\ LET return_format == Get(params, "format", "json")
           results == locals.search_results
       IN  IF return_format = "json"
           THEN /\ messages' = Append(messages, [kind |-> "json", results |-> results,
                                                 count |-> Len(results)])
                /\ pc' = "done"
                /\ UNCHANGED err
           ELSE IF return_format = "md"
           THEN IF results = <<>>
                THEN /\ messages' = Append(messages, [kind |-> "text",
                                                      text |-> "No results found."])
                     /\ pc' = "done"
                     /\ UNCHANGED err
                ELSE IF \E k \in DOMAIN results : ~IsDict(results[k])
                THEN /\ err' = Exc("AttributeError", "object has no attribute 'keys'", "")
                     /\ pc' = "failed"
                     /\ UNCHANGED messages
                ELSE /\ messages' = Append(messages, [kind |-> "text",
                                                      text |-> MarkdownTable(results)])
                     /\ pc' = "done"
                     /\ UNCHANGED err
           ELSE /\ err' = Exc("ValueError", "Unsupported format", return_format)
                /\ pc' = "failed"
                /\ UNCHANGED messages
    /\ UNCHANGED <<tool, caller, creds, params, locals, sqlVars, schemaVars, searchVars>>

NextHybrid ==
    \/ HybridInvoke
    \/ HybridPrepare
    \/ HybridEngine
    \/ HybridConnect
    \/ HybridTable
    \/ HybridDispose
    \/ HybridEmbed
    \/ HybridClient
    \/ HybridSearchTable
    \/ HybridMerge
    \/ HybridRerank
    \/ HybridFormat

SpecHybrid == Init /\ [][NextHybrid]_vars

Next == NextSql \/ NextSchema \/ NextHybrid

Spec == Init /\ [][Next]_vars

----------------------------------------------------------------------------
(* Execute-SQL: which statements reach the database *)

Ended == pc \in {"done", "failed"}

\* the handler has decided whether to run the statement
SqlDecided ==
    /\ tool = "sql"
    /\ db # "none"
    /\ pc \in {"sql_format", "sql_yielded", "sql_finally", "done", "failed",
               "probe_returned", "probe_raised"}

\* s, after optional leading whitespace, begins with a keyword (in any case)
BeginsWithKeyword(s) ==
    \E n \in 0..Len(s) : \E kw \in Keywords :
        /\ \A j \in 1..n : s[j] \in Whitespace
        /\ KeywordAt(s, n + 1, kw)

\* s, after optional leading whitespace, begins with a keyword (in any case) that
\* is followed by whitespace and then by at least one more non-blank character
BeginsWithKeywordAndSeparator(s) ==
    \E n \in 0..Len(s) : \E kw \in Keywords :
        /\ \A j \in 1..n : s[j] \in Whitespace
        /\ KeywordAt(s, n + 1, kw)
        /\ n + Len(kw) + 1 <= Len(s)
        /\ s[n + Len(kw) + 1] \in Whitespace
        /\ \E j \in (n + Len(kw) + 2)..Len(s) : s[j] \notin Whitespace

RejectedAsNotReadOnly ==
    /\ queries = <<>>
    /\ err = Exc("ValueError", "'sql' should start with 'SELECT|SHOW|WITH'", "")
    /\ messages = <<>>

\* C1 as stated: a statement is executed if and only if, after optional leading
\* whitespace, it begins (case-insensitively) with SELECT, SHOW or WITH; any other
\* statement is rejected with a validation failure and no query is sent for it.
C1_ExecutedIffKeywordPrefix ==
    SqlDecided =>
        /\ (queries # <<>>) <=> BeginsWithKeyword(params.sql)
        /\ (queries = <<>>) => RejectedAsNotReadOnly

\* C1 as amended: a statement is executed if and only if, after optional leading
\* whitespace, it begins (case-insensitively) with SELECT, SHOW or WITH followed
\* by whitespace and further text; then exactly the stripped statement is sent,
\* once.  Any other statement is rejected with a ValueError and no query is sent.
C1_ExecutedIffKeywordAndSeparator ==
    SqlDecided =>
        /\ (queries # <<>>) <=> BeginsWithKeywordAndSeparator(params.sql)
        /\ (queries # <<>>) => queries = <<Strip(params.sql)>>
        /\ (queries = <<>>) => RejectedAsNotReadOnly

\* a lower-case statement with leading whitespace has been executed and answered
C1_Witness ==
    /\ tool = "sql" /\ caller = "none" /\ pc = "done"
    /\ params.sql = <<" ", "s", "h", "o", "w", " ", "1">>
    /\ queries = <<<<"s", "h", "o", "w", " ", "1">>>>
    /\ Len(messages) = 1

----------------------------------------------------------------------------
(* Execute-SQL: the database handle *)

\* C2: once the database handle has been opened it is closed on every exit path:
\* no invocation ends with its handle still open, and an invocation that got as
\* far as the try block ends with the handle closed.
C2_HandleClosedOnExit ==
    /\ pc \in {"done", "failed", "probe_returned", "probe_raised"} => db # "open"
    /\ (pc \in {"done", "failed"} /\ (queries # <<>> \/ RejectedAsNotReadOnly
                                       \/ messages # <<>>)) => db = "closed"

\* a rejected statement: the handle was opened, nothing was sent, and it is closed
C2_Witness ==
    /\ tool = "sql" /\ pc = "failed"
    /\ RejectedAsNotReadOnly
    /\ db = "closed"

----------------------------------------------------------------------------
(* Provider credential validation *)

\* C9: validation completes without error only when the SELECT 1 probe was
\* actually executed and succeeded; credentials lacking hostname, port or
\* username are not accepted as validated.
C9_AcceptedOnlyAfterProbe ==
    validation = "accepted" =>
        /\ is_valid(creds)
        /\ queries = <<Select1>>
        /\ Len(messages) = 1

----------------------------------------------------------------------------
(* Release of engines, connections and search clients *)

\* C3: every engine, connection and search client that a Hybrid-Search or
\* schema-introspection invocation creates is released before the invocation
\* ends, on every exit path.
C3_ResourcesReleased ==
    (tool \in {"hybrid", "schema", "text2sql"} /\ Ended) =>
        /\ engine # "live"
        /\ conn # "open"
        /\ client # "open"

----------------------------------------------------------------------------
(* Hybrid-Search: validation of the request *)

AllBlank(text) == \A i \in 1..Len(text) : text[i] \in Whitespace

\* the required parameters that are absent or empty
MissingFields(p) ==
    (IF p.table_names = AbsentStr \/ AllBlank(p.table_names) THEN {"table_names"} ELSE {})
    \cup (IF p.query = AbsentStr \/ AllBlank(p.query) THEN {"query"} ELSE {})
    \cup (IF p.embedding_model \in {Absent, "{}"} THEN {"embedding_model"} ELSE {})

\* the number of entries of a comma-separated list
EntryCount(text) == 1 + Cardinality({i \in 1..Len(text) : text[i] = ","})

WellFormedJson(p) ==
    /\ p.config_options \in {Absent, "", "{}", "{\"a\": 1}", "[1]"}
    /\ p.filter \in {Absent, "", "{}", "{\"f\": 1}"}

HybridValidated == tool = "hybrid" /\ pc \notin {"idle", "hs_begin"}

FailedNaming(field) ==
    /\ pc = "failed"
    /\ err.cls = "ValueError"
    /\ err.subject = field
    /\ messages = <<>>
    /\ calls = <<>>

\* no engine, connection or client was created and no model was called
RejectedByValidation == pc = "failed" /\ engine = "none" /\ calls = <<>>

\* C4 as stated: a missing table list, query or embedding model config fails with
\* a validation error naming the missing field; more than one table without a
\* rerank model config fails with a validation error naming the rerank
\* requirement; exactly one table without a rerank model config is not rejected
\* for the missing rerank model and proceeds to search.
C4_ValidationAsStated ==
    HybridValidated =>
        /\ MissingFields(params) # {} =>
              \E f \in MissingFields(params) : FailedNaming(f)
        /\ ( /\ MissingFields(params) = {}
             /\ EntryCount(params.table_names) > 1
             /\ params.rerank_model = Absent ) => FailedNaming("rerank_model")
        /\ ( /\ MissingFields(params) = {}
             /\ EntryCount(params.table_names) = 1
             /\ params.rerank_model = Absent ) =>
                /\ err # RerankRequired
                /\ (WellFormedJson(params) /\ is_valid(creds)
                       /\ JsonIsObject(ConfigOptionsOrDefault(params)))
                      => ~RejectedByValidation \/ err.msg = "cannot create the engine"

\* C4 as amended: as stated, except that more than one table without a rerank
\* model config fails with the validation error naming the rerank requirement
\* when the connection options and the filter are well-formed JSON; when either
\* is malformed the request fails with the validation error of the malformed JSON.
C4_ValidationAmended ==
    HybridValidated =>
        /\ MissingFields(params) # {} =>
              \E f \in MissingFields(params) : FailedNaming(f)
        /\ ( /\ MissingFields(params) = {}
             /\ EntryCount(params.table_names) > 1
             /\ params.rerank_model = Absent ) =>
                IF WellFormedJson(params)
                THEN FailedNaming("rerank_model") /\ err = RerankRequired
                ELSE /\ pc = "failed" /\ err.cls = "ValueError" /\ calls = <<>>
                     /\ err \in {InvalidJsonConfig, InvalidJsonFilter}
        /\ ( /\ MissingFields(params) = {}
             /\ EntryCount(params.table_names) = 1
             /\ params.rerank_model = Absent ) =>
                /\ err # RerankRequired
                /\ (WellFormedJson(params) /\ is_valid(creds)
                       /\ JsonIsObject(ConfigOptionsOrDefault(params)))
                      => ~RejectedByValidation \/ err.msg = "cannot create the engine"

\* one table, no rerank model config: the search was made and answered
C4_Witness ==
    /\ tool = "hybrid" /\ pc = "done"
    /\ EntryCount(params.table_names) = 1
    /\ params.rerank_model = Absent
    /\ \E k \in DOMAIN calls : calls[k].op = "search"
    /\ Len(messages) = 1

----------------------------------------------------------------------------
(* Schema introspection: per-table failures *)

\* whether the database answered for table t (the last time it was asked)
Succeeded(t) ==
    LET ks == {k \in DOMAIN inspected : inspected[k].table = t}
    IN  ks # {} /\ inspected[CHOOSE k \in ks : \A j \in ks : j <= k].outcome = "ok"

\* C5: when introspecting some table raises, get_table_info does not raise, the
\* returned mapping holds the complete, unaltered TableInfo of every table that
\* succeeded, and an error string under the name of every table that failed.
C5_PerTableFailuresIsolated ==
    (tool \in {"schema", "text2sql"} /\ inspected # <<>>) =>
        /\ err.cls # "UnboundLocalError"
        /\ pc \in {"schema_yield", "t2s_llm", "done"} =>
              LET result == Deref(locals.table_infos)
              IN  \A k \in DOMAIN inspected :
                    LET t == inspected[k].table
                    IN  /\ t \in DOMAIN result
                        /\ result[t] = IF Succeeded(t)
                                       THEN TableInfo(t, locals.include_constraint)
                                       ELSE ErrorString(t)

----------------------------------------------------------------------------
(* Hybrid-Search: rerank failures *)

\* the hits as they stood before the rerank step
PreRerank == MergeResults(locals.all_results, locals.top_k)

RerankEntered ==
    /\ tool = "hybrid"
    /\ \/ pc \in {"hs_format", "done"}
       \/ pc = "failed" /\ err.msg \in {"object has no attribute 'values'",
                                          "object has no attribute 'keys'",
                                          "Unsupported format"}
    /\ ModelConfigTruthy(locals.rerank_model_config)
    /\ PreRerank # <<>>

\* the rerank step failed: in building the text of a hit, in the model call, or
\* in mapping a returned index back onto a hit
RerankFailed ==
    /\ RerankEntered
    /\ \/ \E k \in DOMAIN PreRerank : ~HasValues(PreRerank[k])
       \/ /\ calls[Len(calls)].op = "rerank"
          /\ \/ calls[Len(calls)].reply.raises
             \/ \E k \in DOMAIN calls[Len(calls)].reply.docs :
                   calls[Len(calls)].reply.docs[k].index >= Len(PreRerank)

\* C6: if the rerank step fails for any reason, the request still completes with
\* exactly the pre-rerank hit list in its pre-rerank order; a rerank error never
\* terminates the request.
C6_RerankFailureNotFatal ==
    RerankFailed =>
        /\ locals.search_results = PreRerank
        /\ err.msg # "object has no attribute 'values'"
        /\ pc = "done" =>
              /\ Len(messages) = 1
              /\ messages[1].kind = "json" => messages[1].results = PreRerank

----------------------------------------------------------------------------
(* Hybrid-Search: the merged result of the search step *)

\* the search step has returned and no rerank has replaced its result
MergedState ==
    /\ tool = "hybrid"
    /\ pc \in {"hs_rerank", "hs_format", "done"}
    /\ \A k \in DOMAIN calls : calls[k].op # "rerank"

Scored(h) == "_score" \in DOMAIN h
ScoreOf(h) == IF Scored(h) THEN h["_score"] ELSE 0
Range(s) == { s[k] : k \in DOMAIN s }

\* C7 as stated: for any hit lists returned by the searched tables and any top_k,
\* the merged result has length min(top_k, total number of hits) and its hits
\* are in non-increasing order of relevance score.
C7_MergedAsStated ==
    MergedState =>
        LET merged == locals.search_results
        IN  /\ Len(merged) = Min(locals.top_k, Len(locals.all_results))
            /\ \A i, j \in DOMAIN merged :
                  (i < j /\ Scored(merged[i]) /\ Scored(merged[j]))
                     => merged[i]["_score"] >= merged[j]["_score"]

\* C7 as amended: the merged result holds hits of the tables; for top_k >= 0 its
\* length is min(top_k, total), for top_k < 0 it is max(total + top_k, 0); when
\* the first hit received carries a score the result is in non-increasing order
\* of score (a hit without a score counting as 0) and no hit left out scores
\* higher than a hit kept; when the first hit received carries no score the
\* result is the hits in the order received.
C7_MergedAmended ==
    MergedState =>
        LET merged == locals.search_results
            all    == locals.all_results
        IN  /\ Len(merged) = IF locals.top_k >= 0
                             THEN Min(locals.top_k, Len(all))
                             ELSE Max(Len(all) + locals.top_k, 0)
            /\ Range(merged) \subseteq Range(all)
            /\ IF all # <<>> /\ Scored(all[1])
               THEN /\ \A i, j \in DOMAIN merged :
                         i < j => ScoreOf(merged[i]) >= ScoreOf(merged[j])
                    /\ \A h \in Range(all) \ Range(merged) :
                         \A i \in DOMAIN merged : ScoreOf(merged[i]) >= ScoreOf(h)
               ELSE merged = SubSeq(all, 1, Len(merged))

\* two tables gave four hits, the sort reordered them and one was cut off
C7_Witness ==
    /\ MergedState
    /\ Len(locals.tables) = 2
    /\ Len(locals.all_results) = 4
    /\ Len(locals.search_results) = 3
    /\ locals.search_results # SubSeq(locals.all_results, 1, 3)

----------------------------------------------------------------------------
(* Hybrid-Search: tables that cannot be searched *)

HybridPrepared == tool = "hybrid" /\ "table_info" \in DOMAIN locals

\* introspection found no vector column and no full-text column for table t
NeitherKind(t) ==
    /\ t \in DOMAIN locals.table_info
    /\ Len(locals.table_info[t].vector_columns) = 0
    /\ Len(locals.table_info[t].fulltext_columns) = 0

NoIndexMessage == "Table does not have a vector index or full-text index"

\* C8 as stated: a request that names a table with no vector column and no
\* full-text-indexed column fails as a whole with a validation error that names
\* that table, and emits no result message, whatever the position of the table
\* and whatever the other tables.
C8_UnsearchableAsStated ==
    (HybridPrepared /\ Ended) =>
        \A k \in DOMAIN locals.tables :
            NeitherKind(locals.tables[k]) =>
                /\ pc = "failed"
                /\ err.cls = "ValueError"
                /\ err.msg = NoIndexMessage
                /\ err.subject = locals.tables[k]
                /\ messages = <<>>

\* the steps that come before the test of a table's columns, and can fail
EarlierStepMessages ==
    { "Error getting table info for", "the model call failed",
      "Failed to generate embeddings for the query", "cannot create the search client",
      "Error executing hybrid search on table" }

\* C8 as amended: a request that names such a table never gets past the search
\* step and emits no result message; it ends in failure; the failure is the
\* validation error naming the first such table of the list when every earlier
\* step succeeded (the introspection of all tables, the embedding of the query,
\* the creation of the search client and the search of every table before it),
\* and otherwise the error of the earlier step that failed.  The validation
\* error never names a table that has a column of either kind.
C8_UnsearchableAmended ==
    HybridPrepared =>
        /\ (pc = "failed" /\ err.msg = NoIndexMessage) => NeitherKind(err.subject)
        /\ (\E k \in DOMAIN locals.tables : NeitherKind(locals.tables[k])) =>
              LET first == CHOOSE k \in DOMAIN locals.tables :
                              /\ NeitherKind(locals.tables[k])
                              /\ \A j \in 1..(k - 1) : ~NeitherKind(locals.tables[j])
                  before == { locals.tables[j] : j \in 1..(first - 1) }
              IN  /\ messages = <<>>
                  /\ pc \notin {"hs_rerank", "hs_format", "done"}
                  /\ pc = "failed" =>
                        /\ err.cls \in {"ValueError", "InvokeError", "DatabaseError"}
                        /\ IF client = "open" /\ err.msg \notin EarlierStepMessages
                           THEN /\ err = NoIndexError(locals.tables[first])
                                /\ { calls[k].index : k \in {j \in DOMAIN calls :
                                                                calls[j].op = "search"} } = before
                           ELSE /\ err.msg \in EarlierStepMessages
                                /\ err.msg = "Error executing hybrid search on table"
                                      => err.subject \in before

\* the second table of two is the one that cannot be searched: the first was
\* searched, and the request failed naming the second
C8_Witness ==
    /\ HybridPrepared
    /\ pc = "failed"
    /\ locals.tables = <<"a", "b">>
    /\ ~NeitherKind("a") /\ NeitherKind("b")
    /\ err = NoIndexError("b")
    /\ \E k \in DOMAIN calls : calls[k].op = "search" /\ calls[k].index = "a"

----------------------------------------------------------------------------
(* Configuration errors *)

\* the messages of the failures that a configuration error ends in: invalid or
\* missing credentials, malformed JSON connection options or filter, an
\* unsupported output format, a missing required parameter
ConfigurationMessages ==
    { "Invalid OceanBaseConfig", "Invalid JSON format for Connect Config",
      "Invalid JSON format for filter parameter", "argument after ** must be a mapping",
      "Unsupported format", "parameter is required",
      "rerank_model is required when multiple table names are specified",
      "'NoneType' object has no attribute 'strip'" }

\* C10: in every tool each configuration error ends the invocation with a
\* failure of the one user-facing validation-error class, never with an
\* assertion failure or an attribute or type error.
C10_ConfigurationErrorsAreValidationErrors ==
    (pc = "failed" /\ err.msg \in ConfigurationMessages) => err.cls = "ValueError"

----------------------------------------------------------------------------
(* Hybrid-Search: markdown formatting *)

\* the format step ran for a request for markdown
FormattedMd ==
    /\ tool = "hybrid"
    /\ params.format = "md"
    /\ \/ pc = "done"
       \/ pc = "failed" /\ err.msg = "object has no attribute 'keys'"

\* the lines of a text
RECURSIVE LinesOf(_)
LinesOf(text) ==
    IF \A i \in DOMAIN text : text[i] # "\n" THEN <<text>>
    ELSE LET n == CHOOSE i \in DOMAIN text :
                     text[i] = "\n" /\ \A j \in 1..(i - 1) : text[j] # "\n"
         IN  <<SubSeq(text, 1, n - 1)>> \o LinesOf(SubSeq(text, n + 1, Len(text)))

Pipes(line) == { i \in DOMAIN line : line[i] = "|" }
BarePipes(line) == { i \in Pipes(line) : i = 1 \/ line[i - 1] # "\\" }
WithoutBackslashes(line) == SelectSeq(line, LAMBDA c : c # "\\")

\* the keys of all hits, sorted
HeaderOf(results) == SortedKeys(UNION { DOMAIN results[k] : k \in DOMAIN results })

\* the row of a hit before any escaping: the text of its value under each header,
\* nothing under a header it does not have
PlainCells(hit, headers) ==
    [j \in DOMAIN headers |->
        IF headers[j] \in DOMAIN hit THEN StrValue(headers[j], hit[headers[j]]) ELSE <<>>]

\* line is the row of the cells with every "|" of a cell written as "\|"
IsRowOf(line, cells) ==
    /\ WithoutBackslashes(line) = MarkdownRow(cells)
    /\ Cardinality(BarePipes(line)) = Len(cells) + 1
    /\ Len(line) = Len(MarkdownRow(cells))
                     + Cardinality(UNION { {<<j, i>> : i \in Pipes(cells[j])} : j \in DOMAIN cells })

\* C11: markdown formatting of the results gives exactly "No results found." for
\* an empty list; for a non-empty list it gives a header row of the sorted union
\* of the keys of all hits, a separator row, and one data row per hit in hit
\* order, every "|" of a cell value escaped as "\|" and a missing key rendered as
\* an empty cell.
C11_MarkdownAsStated ==
    FormattedMd =>
        LET results == locals.search_results
        IN  /\ pc = "done"
            /\ Len(messages) = 1
            /\ messages[1].kind = "text"
            /\ IF results = <<>> THEN messages[1].text = "No results found."
               ELSE LET lines   == LinesOf(messages[1].text)
                        headers == HeaderOf(results)
                    IN  /\ Len(lines) = 2 + Len(results)
                        /\ lines[1] = MarkdownRow([j \in DOMAIN headers |-> <<headers[j]>>])
                        /\ lines[2] = MarkdownRow([j \in DOMAIN headers |-> <<"---">>])
                        /\ \A k \in DOMAIN results :
                              IsRowOf(lines[2 + k], PlainCells(results[k], headers))

\* the same, for results every one of which is a dict
C11_MarkdownOfDicts ==
    (FormattedMd /\ \A k \in DOMAIN locals.search_results : IsDict(locals.search_results[k]))
        => C11_MarkdownAsStated

----------------------------------------------------------------------------
(* Hybrid-Search: the order of the steps *)

\* the request failed because a requested table has neither a vector nor a
\* full-text column
FailedAsUnsearchable ==
    /\ HybridPrepared
    /\ pc = "failed"
    /\ err.cls = "ValueError"
    /\ err.msg = NoIndexMessage

\* C12 as stated: the test for a table without a vector or full-text column
\* precedes the embedding and the searches: in an invocation that fails because
\* of such a table the embedding model is never invoked and no search request
\* is issued for any table.
C12_CheckBeforeEmbeddingAsStated ==
    FailedAsUnsearchable =>
        \A k \in DOMAIN calls : calls[k].op \notin {"embed", "search"}

\* C12 as amended: the test is made in the search loop, table by table, after
\* the embedding: in an invocation that fails because of such a table every
\* table has been introspected and the engine disposed, the embedding model has
\* been invoked exactly once, with the query, before any search, and search
\* requests have been issued for exactly the tables that precede that table in
\* the list, in list order, and for no other.
C12_CheckInSearchLoop ==
    FailedAsUnsearchable =>
        LET n == CHOOSE k \in DOMAIN locals.tables : locals.tables[k] = err.subject
        IN  /\ \A k \in DOMAIN locals.tables : locals.tables[k] \in DOMAIN locals.table_info
            /\ engine = "disposed"
            /\ Len(calls) = n
            /\ calls[1].op = "embed" /\ calls[1].texts = <<locals.query>>
            /\ \A j \in 2..n : calls[j].op = "search" /\ calls[j].index = locals.tables[j - 1]

\* the request failed because of its second table, after the embedding and the
\* search of the first
C12_Witness ==
    /\ FailedAsUnsearchable
    /\ err.subject = "b"
    /\ Len(calls) = 2
    /\ calls[1].op = "embed"
    /\ calls[2].op = "search"

----------------------------------------------------------------------------
(* Hybrid-Search: the search request *)

\* the k-th call is a search request
IsSearch(k) == k \in DOMAIN calls /\ calls[k].op = "search"

HasKnn(body) == "knn" \in DOMAIN body
HasMatch(body) == "query" \in DOMAIN body /\ "should" \in DOMAIN body["query"].bool
HasFilter(body) == "query" \in DOMAIN body /\ "filter" \in DOMAIN body["query"].bool

\* the clauses for the vector column and the full-text column of the table
ClausesMatchColumns(k) ==
    LET body == calls[k].body
        cols == locals.table_info[calls[k].index]
    IN  /\ body["size"] = locals.top_k
        /\ HasKnn(body) <=> Len(cols.vector_columns) > 0
        /\ HasKnn(body) =>
              body["knn"] = [field |-> cols.vector_columns[1], k |-> locals.top_k,
                            query_vector |-> "embedding"]
        /\ HasMatch(body) <=> Len(cols.fulltext_columns) > 0
        /\ HasMatch(body) =>
              /\ Len(body["query"].bool.should) = 1
              /\ body["query"].bool.should[1] =
                    [match |-> (cols.fulltext_columns[1] :> [query |-> locals.query])]
        /\ DOMAIN body \subseteq {"size", "knn", "query"}
        /\ "query" \in DOMAIN body => HasMatch(body) \/ HasFilter(body)

\* a filter was supplied with the request
FilterSupplied == params.filter \notin {Absent, ""}
\* a filter was supplied and it is not the empty object
FilterNotEmpty == params.filter \notin {Absent, "", "{}"}

\* C13 as stated: for every searchable table the request body has a nearest-
\* neighbour clause (first vector column, k = top_k, the embedded query) iff the
\* table has a vector column, and a match clause on the first full-text column
\* iff it has a full-text column; whenever a filter was supplied the query
\* carries it under its boolean clause, beside the match clause when there is
\* one; without a supplied filter there is no filter clause.
C13_SearchBodyAsStated ==
    HybridPrepared =>
        \A k \in DOMAIN calls : IsSearch(k) =>
            /\ ClausesMatchColumns(k)
            /\ HasFilter(calls[k].body) <=> FilterSupplied
            /\ HasFilter(calls[k].body) => calls[k].body["query"].bool.filter = params.filter

\* C13 as amended: as stated, except that the filter clause is present iff the
\* supplied filter is not empty: an empty filter object ("{}") adds no filter
\* clause, like no filter at all.
C13_SearchBodyAmended ==
    HybridPrepared =>
        \A k \in DOMAIN calls : IsSearch(k) =>
            /\ ClausesMatchColumns(k)
            /\ HasFilter(calls[k].body) <=> FilterNotEmpty
            /\ HasFilter(calls[k].body) => calls[k].body["query"].bool.filter = params.filter

\* a table with both kinds of column was searched with a filter: the request has
\* the three clauses
C13_Witness ==
    /\ HybridPrepared
    /\ \E k \in DOMAIN calls :
          /\ IsSearch(k)
          /\ HasKnn(calls[k].body) /\ HasMatch(calls[k].body) /\ HasFilter(calls[k].body)

----------------------------------------------------------------------------
(* Hybrid-Search: the reranked result *)

\* the rerank model was called and the rerank step has returned
RerankReturned ==
    /\ tool = "hybrid"
    /\ pc \in {"hs_format", "done"}
    /\ calls # <<>>
    /\ calls[Len(calls)].op = "rerank"

RerankReply == calls[Len(calls)].reply

\* reranking succeeded and returned (index, score) pairs
RerankGavePairs ==
    /\ RerankReturned
    /\ ~RerankReply.raises
    /\ RerankReply.docs # <<>>
    /\ \A k \in DOMAIN RerankReply.docs : RerankReply.docs[k].index < Len(PreRerank)

\* hit is the pre-rerank hit at the index of the pair, with the score of the pair
\* attached as its rerank score
IsHitOfPair(hit, pair) ==
    LET original == PreRerank[pair.index + 1]
    IN  /\ DOMAIN hit = DOMAIN original \cup {"_rerank_score"}
        /\ \A key \in DOMAIN original : hit[key] = original[key]
        /\ hit["_rerank_score"] = pair.score

MappedAndSorted(out) ==
    /\ \A i \in DOMAIN out : \E k \in DOMAIN RerankReply.docs :
          IsHitOfPair(out[i], RerankReply.docs[k])
    /\ \A i, j \in DOMAIN out :
          i < j => out[i]["_rerank_score"] >= out[j]["_rerank_score"]

NoDocsUnchanged ==
    (RerankReturned /\ ~RerankReply.raises /\ RerankReply.docs = <<>>)
        => locals.search_results = PreRerank

\* C14 as stated: when reranking succeeds and returns (index, score) pairs, the
\* output holds only hits of the pre-rerank list, each the hit at a returned
\* index with the score of that pair as its rerank score, in non-increasing
\* order of rerank score, and its length is at most top_k; when the model
\* returns no documents the pre-rerank list is returned unchanged.
C14_RerankedAsStated ==
    /\ RerankGavePairs =>
          /\ MappedAndSorted(locals.search_results)
          /\ Len(locals.search_results) <= locals.top_k
    /\ NoDocsUnchanged

\* C14 as amended: as stated, with the length made exact: for top_k >= 0 the
\* output has min(top_k, number of pairs) hits, for top_k < 0 it has
\* max(number of pairs + top_k, 0); and the hits kept are those of the pairs with
\* the highest scores.
C14_RerankedAmended ==
    /\ RerankGavePairs =>
          LET out  == locals.search_results
              docs == RerankReply.docs
          IN  /\ MappedAndSorted(out)
              /\ Len(out) = IF locals.top_k >= 0 THEN Min(locals.top_k, Len(docs))
                                                 ELSE Max(Len(docs) + locals.top_k, 0)
              /\ \A v \in {docs[k].score : k \in DOMAIN docs} :
                    Cardinality({i \in DOMAIN out : out[i]["_rerank_score"] >= v})
                      = Min(Len(out), Cardinality({k \in DOMAIN docs : docs[k].score >= v}))
    /\ NoDocsUnchanged

\* two pairs came back with the lower score first: the output begins with the
\* hit of the second pair
C14_Witness ==
    /\ RerankGavePairs
    /\ Len(RerankReply.docs) = 2
    /\ RerankReply.docs[1].score < RerankReply.docs[2].score
    /\ RerankReply.docs[1].index # RerankReply.docs[2].index
    /\ Len(locals.search_results) = 2
    /\ IsHitOfPair(locals.search_results[1], RerankReply.docs[2])

============================================================================
